---------------------------- MODULE Spec2Model ----------------------------
(***************************************************************************)
(* A model of src/index.js: the SLCSP pipeline                             *)
(*   main -> parsePlans -> parseZips -> preprocessPlanRates                *)
(*        -> processSLCSP -> writeCSVFile                                  *)
(* run on Node.js.  The three input files are sequences of rows whose      *)
(* fields are texts; a text is a sequence of one-character strings, so     *)
(* that parseInt, parseFloat, toFixed and the ordering of object keys are  *)
(* computed character by character as the runtime computes them.           *)
(*                                                                         *)
(* A JavaScript number is held in hundredths (1.5 is c = 150); NaN is a    *)
(* value of its own.  The rate texts of the model carry at most            *)
(* FractionDigits significant fraction digits, so the hundredths are       *)
(* exact.                                                                  *)
(***************************************************************************)
EXTENDS Integers, Sequences, FiniteSets, TLC

\* ------------------------------------------------------------- bounds
MaxPlans == 3
MaxZipRows == 2
MaxReq == 3
MaxRuns == 2

\* ------------------------------------------------ JavaScript values
FractionDigits == 2

Scale == 10 ^ FractionDigits

JsNum(c) == [t |-> "number", nan |-> FALSE, c |-> c, s |-> <<>>]

JsNaN == [t |-> "number", nan |-> TRUE, c |-> 0, s |-> <<>>]

JsStr(s) == [t |-> "string", nan |-> FALSE, c |-> 0, s |-> s]

\* a === b
StrictEquals(a, b) ==
    /\ a.t = b.t
    /\ IF a.t = "number" THEN ~a.nan /\ ~b.nan /\ a.c = b.c ELSE a.s = b.s

IsDigit(ch) == ch \in {"0", "1", "2", "3", "4", "5", "6", "7", "8", "9"}

DigitVal(ch) ==
    CASE ch = "0" -> 0 [] ch = "1" -> 1 [] ch = "2" -> 2 [] ch = "3" -> 3
      [] ch = "4" -> 4 [] ch = "5" -> 5 [] ch = "6" -> 6 [] ch = "7" -> 7
      [] ch = "8" -> 8 [] ch = "9" -> 9

DigitChar(d) == <<"0", "1", "2", "3", "4", "5", "6", "7", "8", "9">>[d + 1]

\* the number of digits of txt from position i on, up to the first non-digit
RECURSIVE DigitRun(_, _)
DigitRun(txt, i) ==
    IF i <= Len(txt) /\ IsDigit(txt[i]) THEN 1 + DigitRun(txt, i + 1) ELSE 0

\* the value of the n digits of txt that start at position i
RECURSIVE DigitsValue(_, _, _)
DigitsValue(txt, i, n) ==
    IF n = 0 THEN 0
    ELSE 10 * DigitsValue(txt, i, n - 1) + DigitVal(txt[i + n - 1])

\* the decimal digits of the natural number n
RECURSIVE NatToText(_)
NatToText(n) ==
    IF n < 10 THEN <<DigitChar(n)>>
    ELSE NatToText(n \div 10) \o <<DigitChar(n % 10)>>

HasSign(txt) == Len(txt) > 0 /\ txt[1] \in {"-", "+"}

SignOf(txt) == IF Len(txt) > 0 /\ txt[1] = "-" THEN -1 ELSE 1

\* parseInt(txt): an optional sign, then the longest run of digits; what
\* follows is ignored, and no digit at all is NaN.
ParseInt(txt) ==
    LET start == IF HasSign(txt) THEN 2 ELSE 1
        n == DigitRun(txt, start)
    IN  IF n = 0 THEN JsNaN
        ELSE JsNum(SignOf(txt) * DigitsValue(txt, start, n) * Scale)

\* parseFloat(txt): an optional sign, digits, an optional "." and digits;
\* what follows is ignored, and no digit at all is NaN.
ParseFloat(txt) ==
    LET start == IF HasSign(txt) THEN 2 ELSE 1
        n == DigitRun(txt, start)
        dot == start + n
        hasDot == dot <= Len(txt) /\ txt[dot] = "."
        m == IF hasDot THEN DigitRun(txt, dot + 1) ELSE 0
        k == IF m < FractionDigits THEN m ELSE FractionDigits
        frac == DigitsValue(txt, dot + 1, k) * 10 ^ (FractionDigits - k)
    IN  IF n + m = 0 THEN JsNaN
        ELSE JsNum(SignOf(txt) * (DigitsValue(txt, start, n) * Scale + frac))

\* x.toFixed(2)
ToFixed(x) ==
    IF x.nan THEN <<"N", "a", "N">>
    ELSE LET a == IF x.c < 0 THEN -x.c ELSE x.c
             f == a % Scale
         IN  (IF x.c < 0 THEN <<"-">> ELSE <<>>)
                \o NatToText(a \div Scale)
                \o <<".", DigitChar(f \div 10), DigitChar(f % 10)>>

\* String(x) of a number, as a template literal inserts it
NumberToString(x) ==
    IF x.nan THEN <<"N", "a", "N">>
    ELSE LET a == IF x.c < 0 THEN -x.c ELSE x.c
             f == a % Scale
         IN  (IF x.c < 0 THEN <<"-">> ELSE <<>>)
                \o NatToText(a \div Scale)
                \o (IF f = 0 THEN <<>>
                    ELSE IF f % 10 = 0 THEN <<".", DigitChar(f \div 10)>>
                    ELSE <<".", DigitChar(f \div 10), DigitChar(f % 10)>>)

\* `${v}`
TemplateText(v) == IF v.t = "string" THEN v.s ELSE NumberToString(v)


\* ------------------------------------------- Set, Array and Object
\* A Set holds its distinct members in insertion order (SameValueZero: NaN
\* is one member); an Array is a sequence.  A plain object is a function
\* from its keys; the object whose keys are enumerated (the result of
\* processSLCSP) also keeps the order in which its keys were created.
NewSet == [kind |-> "Set", items |-> <<>>]

\* a variant that keeps every added value, as an array would
SetAddNoDedupe(set, v) == [set EXCEPT !.items = Append(@, v)]

SetAdd(set, v) ==
    IF \E i \in 1..Len(set.items) : set.items[i] = v THEN set
    ELSE [set EXCEPT !.items = Append(@, v)]

SetSize(set) == Len(set.items)

NewObject == [keys |-> <<>>, val |-> <<>>]

ObjectHas(obj, k) == k \in DOMAIN obj.val

\* obj[k] = v
ObjectSet(obj, k, v) ==
    [keys |-> IF ObjectHas(obj, k) THEN obj.keys ELSE Append(obj.keys, k),
     val |-> (k :> v) @@ obj.val]

\* a key that is a canonical array index ("10001", not "00601")
IsArrayIndex(k) ==
    /\ Len(k) > 0
    /\ \A i \in 1..Len(k) : IsDigit(k[i])
    /\ (Len(k) = 1 \/ k[1] # "0")
    /\ Len(k) <= 9

IndexValue(k) == DigitsValue(k, 1, Len(k))

RECURSIVE KeysWhere(_, _)
\* the members of seq that are (want = TRUE) or are not array indices
KeysWhere(seq, want) ==
    IF seq = <<>> THEN <<>>
    ELSE IF IsArrayIndex(Head(seq)) = want
         THEN <<Head(seq)>> \o KeysWhere(Tail(seq), want)
         ELSE KeysWhere(Tail(seq), want)

RECURSIVE AscendingIndices(_)
AscendingIndices(ks) ==
    IF ks = {} THEN <<>>
    ELSE LET k == CHOOSE x \in ks : \A y \in ks : IndexValue(x) <= IndexValue(y)
         IN  <<k>> \o AscendingIndices(ks \ {k})

\* The order in which Object.entries lists the own keys of an object: the
\* array indices in ascending numeric order, then the other strings in
\* the order of their creation.
OwnPropertyKeys(obj) ==
    LET idx == KeysWhere(obj.keys, TRUE)
    IN  AscendingIndices({idx[i] : i \in 1..Len(idx)}) \o KeysWhere(obj.keys, FALSE)

\* ------------------------------------- Array.prototype.sort on Node
\* (a, b) => a - b, as the sort reads it: a NaN result counts as 0
Compare(a, b) == IF a.nan \/ b.nan THEN 0 ELSE a.c - b.c

\* the end of the run that starts the array (ascending, or strictly
\* descending when desc)
RECURSIVE RunEnd(_, _, _)
RunEnd(arr, desc, idx) ==
    IF idx > Len(arr) THEN idx - 1
    ELSE LET order == Compare(arr[idx], arr[idx - 1])
         IN  IF (desc /\ order >= 0) \/ (~desc /\ order < 0) THEN idx - 1
             ELSE RunEnd(arr, desc, idx + 1)

ReversePrefix(arr, n) ==
    [i \in 1..Len(arr) |-> IF i <= n THEN arr[n + 1 - i] ELSE arr[i]]

RECURSIVE InsertPoint(_, _, _, _)
InsertPoint(arr, pivot, left, right) ==
    IF left >= right THEN left
    ELSE LET mid == left + ((right - left) \div 2)
         IN  IF Compare(pivot, arr[mid]) < 0
             THEN InsertPoint(arr, pivot, left, mid)
             ELSE InsertPoint(arr, pivot, mid + 1, right)

RECURSIVE BinaryInsertionSort(_, _)
BinaryInsertionSort(arr, start) ==
    IF start > Len(arr) THEN arr
    ELSE LET pivot == arr[start]
             at == InsertPoint(arr, pivot, 1, start)
             moved == [i \in 1..Len(arr) |->
                          IF i < at \/ i > start THEN arr[i]
                          ELSE IF i = at THEN pivot ELSE arr[i - 1]]
         IN  BinaryInsertionSort(moved, start + 1)

\* arr.sort((a, b) => a - b): the array is shorter than a minimal run, so
\* the initial run is found (and reversed when descending) and the rest is
\* inserted by binary insertion.
ArraySort(arr) ==
    IF Len(arr) < 2 THEN arr
    ELSE LET desc == Compare(arr[2], arr[1]) < 0
             run == RunEnd(arr, desc, 3)
             first == IF desc THEN ReversePrefix(arr, run) ELSE arr
         IN  BinaryInsertionSort(first, run + 1)

\* ------------------------------------------------- the row handlers
\* let rate = -1
Sentinel == -1

Unresolved == JsNum(Sentinel * Scale)

\* the callback of parsePlans: (row, data) => { ... }
ParsePlansRow(row, data) ==
    IF row.metal_level = "Silver"
    THEN LET area == ParseInt(row.rate_area)
             parsedRate == ParseFloat(row.rate)
             made == IF area \in DOMAIN data THEN data ELSE (area :> NewSet) @@ data
         IN  [made EXCEPT ![area] = SetAdd(@, parsedRate)]
    ELSE data

\* the callback of parseZips
ParseZipsRow(row, data) ==
    LET area == ParseInt(row.rate_area)
        made == IF row.zipcode \in DOMAIN data THEN data
                ELSE (row.zipcode :> NewSet) @@ data
    IN  [made EXCEPT ![row.zipcode] = SetAdd(@, area)]

\* planData[key] = Array.from(planData[key]).sort((a, b) => a - b), for
\* every key
PreprocessPlanRates(planData) ==
    [key \in DOMAIN planData |->
        [kind |-> "Array", items |-> ArraySort(planData[key].items)]]

\* planData[rateArea] && planData[rateArea].length > 1: a Set has no length
HasSecondRate(planData, rateArea) ==
    /\ rateArea \in DOMAIN planData
    /\ planData[rateArea].kind = "Array"
    /\ Len(planData[rateArea].items) > 1

\* a variant that keeps the number: planData[rateArea][1]
SecondLowestNumber(planData, rateArea) == planData[rateArea].items[2]

\* planData[rateArea][1].toFixed(2)
SecondLowest(planData, rateArea) == JsStr(ToFixed(planData[rateArea].items[2]))

\* a variant that asks for some rate area (size >= 1), not for exactly one
ResolveRateFirstArea(zipcode, planData, zipData) ==
    IF zipcode \in DOMAIN zipData /\ SetSize(zipData[zipcode]) >= 1
    THEN LET rateArea == zipData[zipcode].items[1]
         IN  IF HasSecondRate(planData, rateArea)
             THEN SecondLowest(planData, rateArea)
             ELSE Unresolved
    ELSE Unresolved

\* the value of rate at the end of a row of processSLCSP
ResolveRate(zipcode, planData, zipData) ==
    IF zipcode \in DOMAIN zipData /\ SetSize(zipData[zipcode]) = 1
    THEN LET rateArea == zipData[zipcode].items[1]
         IN  IF HasSecondRate(planData, rateArea)
             THEN SecondLowest(planData, rateArea)
             ELSE Unresolved
    ELSE Unresolved

\* rate === -1 ? "" : rate, inside a template literal
RateField(rate) ==
    IF StrictEquals(rate, Unresolved) THEN <<>> ELSE TemplateText(rate)

\* a variant that logs the rate as it is: `${zipcode}, ${rate}`
LogLineRaw(zipcode, rate) ==
    [kind |-> "row", zipcode |-> zipcode, sep |-> ", ", rate |-> TemplateText(rate)]

\* console.log(`${zipcode}, ${rate === -1 ? "" : rate}`)
LogLine(zipcode, rate) ==
    [kind |-> "row", zipcode |-> zipcode, sep |-> ", ", rate |-> RateField(rate)]

\* data[zipcode] = rate
StoreRate(data, zipcode, rate) == ObjectSet(data, zipcode, rate)

\* Object.entries(data).map(([zipcode, rate]) => `${zipcode},${...}`)
CsvRows(data) ==
    LET ks == OwnPropertyKeys(data)
    IN  [i \in 1..Len(ks) |->
            [kind |-> "row", zipcode |-> ks[i], sep |-> ",",
             rate |-> RateField(data.val[ks[i]])]]

\* [header, ...rows].join('\n'), written over whatever the file held
CsvContent(data) ==
    [exists |-> TRUE, header |-> "zipcode,rate", rows |-> CsvRows(data)]

NoFile == [exists |-> FALSE, header |-> "", rows |-> <<>>]

HeaderLine == [kind |-> "header", zipcode |-> <<>>, sep |-> ", ", rate |-> <<>>]

CreatedLine == [kind |-> "created", zipcode |-> <<>>, sep |-> "", rate |-> <<>>]

\* ------------------------------------------------------ the inputs
Txt1 == <<"1">>
Txt01 == <<"0", "1">>
Txt2 == <<"2">>
TxtX == <<"x">>
AreaTexts == {Txt1, Txt01, Txt2, TxtX}

RateTexts == {<<"-", "2">>, <<"-", "1">>, <<"-", "1", ".", "0">>,
              <<"1", ".", "5", "0">>, <<"x">>}

Zip00601 == <<"0", "0", "6", "0", "1">>
Zip10001 == <<"1", "0", "0", "0", "1">>
Zips == {Zip00601, Zip10001}

PlanRow(m, r, a) == [metal_level |-> m, rate |-> r, rate_area |-> a]

ZipRow(z, a) == [zipcode |-> z, rate_area |-> a]

\* rows of plans.csv: the Silver plans of area "1" at every rate text, a
\* Silver plan of the areas "01", "2" and "x", and a Gold plan
PlanRows ==
    {PlanRow("Silver", r, Txt1) : r \in RateTexts}
        \cup {PlanRow("Silver", <<"-", "2">>, Txt2),
              PlanRow("Silver", <<"-", "1">>, Txt01),
              PlanRow("Silver", <<"-", "1">>, TxtX),
              PlanRow("Gold", <<"-", "2">>, Txt1)}

ZipRows == {ZipRow(z, a) : z \in Zips, a \in AreaTexts}

SlcspRows == {[zipcode |-> z] : z \in Zips}

\* the sequences over S of at most n members
BoundedSeq(S, n) == UNION {[1..k -> S] : k \in 0..n}

\* fixed files for the inputs a specification does not vary
TwoRatePlans ==
    <<PlanRow("Silver", <<"1", ".", "5", "0">>, Txt1),
      PlanRow("Silver", <<"-", "2">>, Txt1),
      PlanRow("Silver", <<"-", "1">>, Txt2),
      PlanRow("Silver", <<"-", "2">>, Txt2)>>

NaNRatePlans ==
    <<PlanRow("Silver", <<"1", ".", "5", "0">>, Txt1),
      PlanRow("Silver", <<"x">>, Txt1),
      PlanRow("Gold", <<"-", "1">>, Txt2),
      PlanRow("Silver", <<"-", "2">>, Txt2)>>

FlowPlans == {TwoRatePlans, NaNRatePlans}

OneAreaZips == <<ZipRow(Zip00601, Txt1), ZipRow(Zip10001, Txt1),
                 ZipRow(Zip10001, Txt2)>>

BothZips == <<[zipcode |-> Zip10001], [zipcode |-> Zip00601]>>

\* ------------------------------------------------------- the state
VARIABLES
    plansFile,        \* ./slcsp/plans.csv: its rows
    zipsFile,         \* ./slcsp/zips.csv
    slcspFile,        \* ./slcsp/slcsp.csv
    outFile,          \* ./slcsp/slcsp_complete.csv
    pc,               \* where main is: the call it awaits, or how it ended
    posPlans,         \* rows of plans.csv handed to the callback of parsePlans
    posZips,          \* rows of zips.csv handed to the callback of parseZips
    posSlcsp,         \* rows of slcsp.csv handed to the callback of processSLCSP
    silverPlanData,   \* the data object of parsePlans
    zipRateAreaData,  \* the data object of parseZips
    slcspData,        \* the data object of processSLCSP
    stdout,           \* the lines of console.log
    stderr,           \* the lines of console.error and of the runtime
    sortCount,        \* history: the calls of preprocessPlanRates in this run
    run,              \* history: the number of this run
    lastOut           \* history: the output file as this run found it

vars == <<plansFile, zipsFile, slcspFile, outFile, pc, posPlans, posZips,
          posSlcsp, silverPlanData, zipRateAreaData, slcspData, stdout,
          stderr, sortCount, run, lastOut>>

files == <<plansFile, zipsFile, slcspFile>>

Reading == {"parsePlans", "parseZips", "processSLCSP"}

Ended == {"done", "caught", "crashed"}

\* a process that has just called main(): parsePlans has opened its stream
Started ==
    /\ pc = "parsePlans"
    /\ posPlans = 0 /\ posZips = 0 /\ posSlcsp = 0
    /\ silverPlanData = <<>>
    /\ zipRateAreaData = <<>>
    /\ slcspData = NewObject
    /\ stdout = <<>> /\ stderr = <<>>
    /\ sortCount = 0

FirstRun == Started /\ outFile = NoFile /\ run = 1 /\ lastOut = NoFile

\* the zips file and the request vary, the plans are one of two files
Init ==
    /\ plansFile \in FlowPlans
    /\ zipsFile \in BoundedSeq(ZipRows, MaxZipRows)
    /\ slcspFile \in BoundedSeq(SlcspRows, MaxReq)
    /\ FirstRun

\* the plans file varies, the zips file and the request are fixed
InitRates ==
    /\ plansFile \in BoundedSeq(PlanRows, MaxPlans)
    /\ zipsFile = OneAreaZips
    /\ slcspFile = BothZips
    /\ FirstRun

\* the request varies
InitRerun ==
    /\ plansFile \in FlowPlans
    /\ zipsFile = OneAreaZips
    /\ slcspFile \in BoundedSeq(SlcspRows, MaxReq)
    /\ FirstRun

\* ----------------------------------------------------- the actions
\* a variant that resolves before the stream has ended
PlansEndedEarly == TRUE

\* .on('end', () => resolve(data)): the stream has handed over every row
PlansEnded == posPlans = Len(plansFile)

ZipsEnded == posZips = Len(zipsFile)

SlcspEnded == posSlcsp = Len(slcspFile)

\* a variant that appends to the file it finds (flag 'a')
WriteCSVFileAppend(old, data) ==
    IF old.exists THEN [old EXCEPT !.rows = @ \o CsvRows(data)]
    ELSE CsvContent(data)

\* writeCSVFile(data, filePath): fs.writeFileSync replaces the file
WriteCSVFile(old, data) == CsvContent(data)

\* a variant that writes what was resolved so far, as a finally block would
CatchBlockWrites(old, data) == CsvContent(data)

\* catch (error) { console.error(...) }: the output file is left alone
CatchBlock(old, data) == old

\* a 'data' event of the stream of parsePlans
ParsePlansData ==
    /\ pc = "parsePlans"
    /\ posPlans < Len(plansFile)
    /\ silverPlanData' = ParsePlansRow(plansFile[posPlans + 1], silverPlanData)
    /\ posPlans' = posPlans + 1
    /\ UNCHANGED <<files, outFile, pc, posZips, posSlcsp, zipRateAreaData,
                   slcspData, stdout, stderr, sortCount, run, lastOut>>

\* the 'end' event: await parsePlans(...) returns and main calls parseZips
ParsePlansEnd ==
    /\ pc = "parsePlans"
    /\ PlansEnded
    /\ pc' = "parseZips"
    /\ UNCHANGED <<files, outFile, posPlans, posZips, posSlcsp, silverPlanData,
                   zipRateAreaData, slcspData, stdout, stderr, sortCount, run,
                   lastOut>>

\* a 'data' event of the stream of parseZips
ParseZipsData ==
    /\ pc = "parseZips"
    /\ posZips < Len(zipsFile)
    /\ zipRateAreaData' = ParseZipsRow(zipsFile[posZips + 1], zipRateAreaData)
    /\ posZips' = posZips + 1
    /\ UNCHANGED <<files, outFile, pc, posPlans, posSlcsp, silverPlanData,
                   slcspData, stdout, stderr, sortCount, run, lastOut>>

\* the 'end' event: await parseZips(...) returns, main sorts the rates and
\* calls processSLCSP, which logs the header and opens its stream
ParseZipsEnd ==
    /\ pc = "parseZips"
    /\ ZipsEnded
    /\ silverPlanData' = PreprocessPlanRates(silverPlanData)
    /\ sortCount' = sortCount + 1
    /\ stdout' = Append(stdout, HeaderLine)
    /\ pc' = "processSLCSP"
    /\ UNCHANGED <<files, outFile, posPlans, posZips, posSlcsp, zipRateAreaData,
                   slcspData, stderr, run, lastOut>>

\* a 'data' event of the stream of processSLCSP
ProcessSLCSPData ==
    /\ pc = "processSLCSP"
    /\ posSlcsp < Len(slcspFile)
    /\ LET zipcode == slcspFile[posSlcsp + 1].zipcode
           rate == ResolveRate(zipcode, silverPlanData, zipRateAreaData)
       IN  /\ stdout' = Append(stdout, LogLine(zipcode, rate))
           /\ slcspData' = StoreRate(slcspData, zipcode, rate)
    /\ posSlcsp' = posSlcsp + 1
    /\ UNCHANGED <<files, outFile, pc, posPlans, posZips, silverPlanData,
                   zipRateAreaData, stderr, sortCount, run, lastOut>>

\* the 'end' event: await processSLCSP(...) returns and main writes the file
ProcessSLCSPEnd ==
    /\ pc = "processSLCSP"
    /\ SlcspEnded
    /\ outFile' = WriteCSVFile(outFile, slcspData)
    /\ stdout' = Append(stdout, CreatedLine)
    /\ pc' = "done"
    /\ UNCHANGED <<files, posPlans, posZips, posSlcsp, silverPlanData,
                   zipRateAreaData, slcspData, stderr, sortCount, run, lastOut>>

\* The parser stream emits 'error': .on('error', reject) rejects the promise
\* main awaits, and main's catch block reports it.
ParserError ==
    /\ pc \in Reading
    /\ pc' = "caught"
    /\ stderr' = Append(stderr, "Error in main process:")
    /\ outFile' = CatchBlock(outFile, slcspData)
    /\ UNCHANGED <<files, posPlans, posZips, posSlcsp, silverPlanData,
                   zipRateAreaData, slcspData, stdout, sortCount, run, lastOut>>

\* The file stream emits 'error' (the file is missing, a read fails): the
\* handler of parseCSV is on the parser that pipe() returns, the file stream
\* has none, so the runtime reports the error and ends the process.
StreamError ==
    /\ pc \in Reading
    /\ pc' = "crashed"
    /\ stderr' = Append(stderr, "Uncaught Error")
    /\ UNCHANGED <<files, outFile, posPlans, posZips, posSlcsp, silverPlanData,
                   zipRateAreaData, slcspData, stdout, sortCount, run, lastOut>>

\* the program is run again on the same three files
Rerun ==
    /\ pc \in Ended
    /\ run < MaxRuns
    /\ run' = run + 1
    /\ lastOut' = outFile
    /\ pc' = "parsePlans"
    /\ posPlans' = 0 /\ posZips' = 0 /\ posSlcsp' = 0
    /\ silverPlanData' = <<>>
    /\ zipRateAreaData' = <<>>
    /\ slcspData' = NewObject
    /\ stdout' = <<>> /\ stderr' = <<>>
    /\ sortCount' = 0
    /\ UNCHANGED <<files, outFile>>

Next ==
    \/ ParsePlansData
    \/ ParsePlansEnd
    \/ ParseZipsData
    \/ ParseZipsEnd
    \/ ProcessSLCSPData
    \/ ProcessSLCSPEnd
    \/ ParserError
    \/ StreamError

NextRerun == Next \/ Rerun

Spec == Init /\ [][Next]_vars

SpecRates == InitRates /\ [][Next]_vars

SpecRerun == (InitRerun \/ InitRates) /\ [][NextRerun]_vars

\* ------------------------------------------- what the files say
\* The properties below are stated against the three input files, not
\* against the indexes the program builds from them.

\* the rate areas the zip records give a ZIP
AreasOf(zipcode) ==
    {ParseInt(zipsFile[i].rate_area) :
        i \in {j \in 1..Len(zipsFile) : zipsFile[j].zipcode = zipcode}}

\* the distinct rates of the Silver plan records of a rate area
SilverRates(area) ==
    {ParseFloat(plansFile[i].rate) :
        i \in {j \in 1..Len(plansFile) :
                  /\ plansFile[j].metal_level = "Silver"
                  /\ ParseInt(plansFile[j].rate_area) = area}}

NumericRates(area) == {v \in SilverRates(area) : ~v.nan}

TheArea(zipcode) == CHOOSE a \in AreasOf(zipcode) : TRUE

OneArea(zipcode) == Cardinality(AreasOf(zipcode)) = 1

Smallest(S) == CHOOSE v \in S : \A w \in S : v.c <= w.c

SecondSmallest(S) == Smallest(S \ {Smallest(S)})

\* no single rate area, or fewer than two distinct Silver rates in it
UnresolvedZip(zipcode) ==
    \/ ~OneArea(zipcode)
    \/ Cardinality(SilverRates(TheArea(zipcode))) < 2

\* a decimal text with exactly two fraction digits: -?d+.dd
IsTwoDecimal(txt) ==
    LET start == IF Len(txt) > 0 /\ txt[1] = "-" THEN 2 ELSE 1
        n == DigitRun(txt, start)
    IN  /\ n >= 1
        /\ Len(txt) = start + n + 2
        /\ txt[start + n] = "."
        /\ IsDigit(txt[start + n + 1])
        /\ IsDigit(txt[start + n + 2])

RowLines(lines) == SelectSeq(lines, LAMBDA l : l.kind = "row")

ZipcodesOf(rows) == [i \in 1..Len(rows) |-> rows[i].zipcode]

Range(seq) == {seq[i] : i \in 1..Len(seq)}

\* the rows this run wrote to the output file
Written == IF pc = "done" THEN outFile.rows ELSE <<>>

\* every answer this run has given: a logged line or a written row
Answers == Range(RowLines(stdout)) \cup Range(Written)

\* --------------------------------------------------------- the claims

\* C1: the rows after the header are one row per request entry, in the
\* order of the request, a repeated ZIP giving repeated rows.
C1_RowsFollowRequest ==
    pc = "done" =>
        /\ outFile.exists
        /\ outFile.header = "zipcode,rate"
        /\ ZipcodesOf(outFile.rows) = ZipcodesOf(slcspFile)

\* C2: a requested ZIP of exactly one rate area whose Silver plan records
\* hold at least two distinct numeric rates resolves to the second-smallest
\* of them.
C2_SecondSmallestNumeric ==
    \A ans \in Answers :
        (/\ OneArea(ans.zipcode)
         /\ Cardinality(NumericRates(TheArea(ans.zipcode))) >= 2)
        => /\ ans.rate # <<>>
           /\ ParseFloat(ans.rate)
                = SecondSmallest(NumericRates(TheArea(ans.zipcode)))

\* C3: a requested ZIP that the zip records leave out, or give two or more
\* distinct rate areas, is unresolved (its rate field is empty) whatever the
\* plans are; and once the zip records are read, the index holds for each
\* ZIP exactly its distinct rate areas, repeated records counting once.
C3_NoSingleAreaUnresolved ==
    /\ \A ans \in Answers : ~OneArea(ans.zipcode) => ans.rate = <<>>
    /\ \A z \in DOMAIN slcspData.val :
          ~OneArea(z) => slcspData.val[z] = Unresolved
    /\ pc \notin {"parsePlans", "parseZips"} /\ posZips = Len(zipsFile) =>
          \A z \in Zips :
              IF AreasOf(z) = {} THEN z \notin DOMAIN zipRateAreaData
              ELSE /\ z \in DOMAIN zipRateAreaData
                   /\ Range(zipRateAreaData[z].items) = AreasOf(z)
                   /\ SetSize(zipRateAreaData[z]) = Cardinality(AreasOf(z))

C3_Witness ==
    /\ pc = "done"
    /\ Len(zipsFile) = 2
    /\ Cardinality(AreasOf(Zip00601)) = 2
    /\ AreasOf(Zip10001) = {}
    /\ ZipcodesOf(slcspFile) = <<Zip00601, Zip10001>>
    /\ \A i \in 1..Len(outFile.rows) : outFile.rows[i].rate = <<>>
    /\ Len(outFile.rows) = 2

C5_RateFieldFormat ==
    \A ans \in Answers : ans.rate = <<>> \/ IsTwoDecimal(ans.rate)

\* C6: when reading an input fails, before the first row or in the middle,
\* the failure is reported on the error channel and the write step does not
\* run: the output file is what the run found, and nothing says it was
\* created.
C6_ReadFailureWritesNothing ==
    pc \in {"caught", "crashed"} =>
        /\ Len(stderr) >= 1
        /\ outFile = lastOut
        /\ CreatedLine \notin Range(stdout)

C6_Witness ==
    /\ pc = "caught"
    /\ posSlcsp >= 1
    /\ posSlcsp < Len(slcspFile)
    /\ slcspData # NewObject

\* C7: the first request row is resolved only after both builders have
\* consumed all their rows; preprocessPlanRates runs exactly once, after the
\* last plan row and before the first request row; and once processSLCSP
\* has started no plan or zip row is accumulated and the indexes stay as
\* they are.
C7_BuildThenResolve ==
    /\ [](posSlcsp > 0 \/ pc \in {"processSLCSP", "done"} =>
            /\ posPlans = Len(plansFile)
            /\ posZips = Len(zipsFile)
            /\ sortCount = 1)
    /\ [](pc \in {"parsePlans", "parseZips"} => sortCount = 0 /\ posSlcsp = 0)
    /\ [][sortCount' # sortCount =>
            /\ sortCount' = 1
            /\ posPlans = Len(plansFile)
            /\ posSlcsp = 0 /\ posSlcsp' = 0]_vars
    /\ [][pc = "processSLCSP" =>
            UNCHANGED <<posPlans, posZips, silverPlanData, zipRateAreaData,
                        sortCount>>]_vars

C7_Witness ==
    /\ pc = "done"
    /\ posSlcsp = 2
    /\ posPlans = 4
    /\ posZips = 2
    /\ sortCount = 1

\* C8: a run that completes after an earlier completed run on the same
\* three files leaves the output file exactly as the earlier run left it,
\* whatever the runs in between did.
C8_RerunSameOutput ==
    pc = "done" /\ lastOut.exists => outFile = lastOut

C8_Witness ==
    /\ run = 2
    /\ pc = "done"
    /\ lastOut.exists
    /\ Len(outFile.rows) = 2
    /\ \E i \in 1..2 : outFile.rows[i].rate # <<>>

\* C9: every request row gives one log line "zipcode, rate", in the order
\* of the request and once per repetition, with an empty rate for an
\* unresolved ZIP; and the rate a line shows is the rate the output file
\* carries for that ZIP.
C9_LogFollowsRequest ==
    LET lines == RowLines(stdout)
    IN  /\ ZipcodesOf(lines) = SubSeq(ZipcodesOf(slcspFile), 1, posSlcsp)
        /\ \A i \in 1..Len(lines) :
              /\ lines[i].sep = ", "
              /\ UnresolvedZip(lines[i].zipcode) => lines[i].rate = <<>>
        /\ pc = "done" =>
              \A i \in 1..Len(lines) :
                  /\ \E j \in 1..Len(outFile.rows) :
                        outFile.rows[j].zipcode = lines[i].zipcode
                  /\ \A j \in 1..Len(outFile.rows) :
                        outFile.rows[j].zipcode = lines[i].zipcode
                            => outFile.rows[j].rate = lines[i].rate

C9_Witness ==
    /\ pc = "done"
    /\ Len(slcspFile) = 3
    /\ slcspFile[1] = slcspFile[3]
    /\ slcspFile[1] # slcspFile[2]
    /\ Len(RowLines(stdout)) = 3
    /\ \E i \in 1..3 : RowLines(stdout)[i].rate = <<>>
    /\ \E i \in 1..3 : RowLines(stdout)[i].rate # <<>>

\* C10: a row is written with an empty rate field exactly when its ZIP is
\* unresolved, also when the second-lowest Silver rate is -1: a resolved
\* rate is kept as a text, and only the number -1 stands for "no value".
C10_SentinelNeverARate ==
    /\ \A z \in DOMAIN slcspData.val :
          /\ slcspData.val[z].t = "string" \/ slcspData.val[z] = Unresolved
          /\ slcspData.val[z].t = "string" <=> ~UnresolvedZip(z)
    /\ \A i \in 1..Len(Written) :
          Written[i].rate = <<>> <=> UnresolvedZip(Written[i].zipcode)

C10_Witness ==
    /\ pc = "done"
    /\ NumericRates(TheArea(Zip00601)) = SilverRates(TheArea(Zip00601))
    /\ Cardinality(NumericRates(TheArea(Zip00601))) >= 2
    /\ SecondSmallest(NumericRates(TheArea(Zip00601))) = JsNum(Sentinel * Scale)
    /\ \E i \in 1..Len(outFile.rows) :
          /\ outFile.rows[i].zipcode = Zip00601
          /\ outFile.rows[i].rate = <<"-", "1", ".", "0", "0">>

=============================================================================
